---- MODULE Spec2Model ----
(***************************************************************************)
(* A model of deepwell's login auditing (session/manager.rs), of the       *)
(* authentication path that drives it (exercised by test/login.rs) and of  *)
(* the RPC listener of deepwell-rpc (server.rs).                           *)
(*                                                                         *)
(* Option<T> values are sequences of length at most one: None is << >>     *)
(* and Some(x) is <<x>>.                                                   *)
(***************************************************************************)
EXTENDS Naturals, Integers, Sequences, FiniteSets, Bags, TLC

\* ------------------------------------------------------------------------
\* Bounds of the model
\* ------------------------------------------------------------------------

\* Number of simultaneous wrong-password logins for one user.
NumCallers == 3

\* Rows the login_attempts table may hold before callers stop logging in.
MaxAttempts == 2

\* Largest value of the database clock.
MaxClock == 1

\* Connection attempts the listener sees in one run.
MaxConns == 17

\* Connection attempts that may wait at the listener at one time.
MaxBacklog == 1

\* Requests a client keeps outstanding on one connection.
MaxPipelined == 2

\* Connection attempts that fail, at most.
MaxAcceptErrors == 1

\* Ids the users serial hands out, at most.
MaxUsers == 2

\* The latest reading of the server's clock, in seconds since the epoch.
MaxUnixTime == 1

\* Rows of the largest login_attempts table the queries are run on.
MaxRows == 107

\* ------------------------------------------------------------------------
\* Option<T>
\* ------------------------------------------------------------------------

None == << >>

Some(x) == <<x>>

IsSome(o) == Len(o) = 1

Unwrap(o) == o[1]

\* ------------------------------------------------------------------------
\* The user directory and the credential store, as test/login.rs sets them
\* up: one user "squirrelbird" with password "blackmoonhowls", and a second
\* account whose password no caller of the model knows.
\* ------------------------------------------------------------------------

\* Two clients of the session manager, running concurrently.
Procs == {1, 2}

\* The callers of the simultaneous wrong-password logins.
Callers == 1..NumCallers

\* Result<T>: Ok(x), or Err(error) for each error the model meets.
Ok(x) == <<"Ok", x>>

IsOk(r) == r[1] = "Ok"

AuthenticationFailed == <<"Err", "AuthenticationFailed">>

UserNotFound == <<"Err", "UserNotFound">>

Users == {1, 2}

Names == {"squirrelbird", "squirrel"}

Passwords == {"blackmoonhowls", "letmein"}

Addresses == {None, Some("1.1.1.1")}

\* A bug get_user_from_name could have: a missing user is an error, as it
\* is for get_user_from_id.
get_user_from_name_or_error(name) ==
    IF name = "squirrelbird" THEN Ok(Some(1)) ELSE UserNotFound

\* Server::get_user_from_name: Ok(None) when nobody has that name.
get_user_from_name(name) ==
    Ok(IF name = "squirrelbird" THEN Some(1) ELSE None)

\* The password service's check of a user's password.
password_check(user_id, password) ==
    user_id = 1 /\ password = "blackmoonhowls"

VARIABLES
    attempts,           \* the login_attempts table, in insertion order
    login_attempt_seq,  \* the serial behind login_attempts.login_attempt_id
    sessions,           \* the sessions table, in insertion order
    session_seq,        \* the serial behind sessions.session_id
    clock,              \* the database's now()
    pc,                 \* per caller: "idle" or "called"
    call,               \* per caller: the arguments of its last login call
    result,             \* per caller: what its last login call returned
    backlog,            \* what tcp::listen's stream will yield next, in order
    channels,           \* bag of the channels being served: one element per
                        \* channel, the number of its requests in flight
    arrived,            \* connection attempts seen so far
    listening,          \* whether Server::run is still running
    warned,             \* "Error accepting connection" warnings logged
    query,              \* the last audit query and the rows it returned
    storage_up,         \* whether the database executes statements
    system_time,        \* SystemTime::now(), in seconds since the epoch
    users,              \* the users table, in insertion order
    user_seq,           \* the serial behind users.user_id
    passwords           \* the passwords table, in insertion order

dbvars == <<attempts, login_attempt_seq, sessions, session_seq, clock,
            pc, call, result>>

rpcvars == <<backlog, channels, arrived, listening, warned>>

envvars == <<storage_up, system_time>>

uservars == <<users, user_seq, passwords>>

vars == <<dbvars, rpcvars, query, envvars, uservars>>

\* ------------------------------------------------------------------------
\* SessionManager
\* ------------------------------------------------------------------------

\* struct LoginAttempt, as the table returns it.
LoginAttempt(id, user_id, username_or_email, remote_address, success, at) ==
    [id |-> id,
     user_id |-> user_id,
     username_or_email |-> username_or_email,
     remote_address |-> remote_address,
     success |-> success,
     attempted_at |-> at]

\* struct Session.
Session(id, user_id, login_attempt_id) ==
    [id |-> id, user_id |-> user_id, login_attempt_id |-> login_attempt_id]

\* A bug add_login_attempt could have: the row is written with success =
\* false whatever the caller passed.
add_login_attempt_drops_success(table, seq, now, user_id, username_or_email, remote_address, success) ==
    [panic |-> ~IsSome(user_id) /\ ~IsSome(username_or_email),
     attempts |-> Append(table, LoginAttempt(seq, user_id, username_or_email,
                                             remote_address, FALSE, now)),
     seq |-> seq + 1,
     id |-> seq]

\* A bug add_login_attempt could have: a row equal to the newest one (same
\* user, same flag, same instant) is coalesced into it instead of inserted.
add_login_attempt_coalesces(table, seq, now, user_id, username_or_email, remote_address, success) ==
    LET row == LoginAttempt(seq, user_id, username_or_email,
                            remote_address, success, now)
        same == /\ Len(table) > 0
                /\ table[Len(table)].user_id = user_id
                /\ table[Len(table)].success = success
                /\ table[Len(table)].attempted_at = now
    IN  [panic |-> ~IsSome(user_id) /\ ~IsSome(username_or_email),
         attempts |-> IF same THEN table ELSE Append(table, row),
         seq |-> IF same THEN seq ELSE seq + 1,
         id |-> IF same THEN table[Len(table)].id ELSE seq]

\* A bug add_login_attempt could have: the id handed back is not the id of
\* the row just inserted.
add_login_attempt_wrong_id(table, seq, now, user_id, username_or_email, remote_address, success) ==
    [panic |-> ~IsSome(user_id) /\ ~IsSome(username_or_email),
     attempts |-> Append(table, LoginAttempt(seq, user_id, username_or_email,
                                             remote_address, success, now)),
     seq |-> seq + 1,
     id |-> seq + 1]

\* A bug add_login_attempt could have: the name the client typed is kept
\* only while it names nobody.
add_login_attempt_drops_name(table, seq, now, user_id, username_or_email, remote_address, success) ==
    [panic |-> ~IsSome(user_id) /\ ~IsSome(username_or_email),
     attempts |-> Append(table, LoginAttempt(seq, user_id,
                                             IF IsSome(user_id) THEN None
                                             ELSE username_or_email,
                                             remote_address, success, now)),
     seq |-> seq + 1,
     id |-> seq]

\* A bug add_login_attempt could have: nothing checks that the call names
\* a user or a name, and the row is inserted with neither.
add_login_attempt_unchecked(table, seq, now, user_id, username_or_email, remote_address, success) ==
    [panic |-> FALSE,
     attempts |-> Append(table, LoginAttempt(seq, user_id, username_or_email,
                                             remote_address, success, now)),
     seq |-> seq + 1,
     id |-> seq]

\* SessionManager::add_login_attempt.  The logging block panics (expect)
\* when both user_id and username_or_email are None; otherwise one row is
\* inserted, its id drawn from the serial and its attempted_at from now(),
\* and the id is returned.
add_login_attempt(table, seq, now, user_id, username_or_email, remote_address, success) ==
    LET panic == ~IsSome(user_id) /\ ~IsSome(username_or_email)
        row == LoginAttempt(seq, user_id, username_or_email,
                            remote_address, success, now)
    IN  [panic |-> panic,
         attempts |-> IF panic THEN table ELSE Append(table, row),
         seq |-> IF panic THEN seq ELSE seq + 1,
         id |-> seq]

\* A bug set_login_success could have: the flag is toggled, not set.
set_login_success_toggles(table, login_attempt_id) ==
    [attempts |-> [i \in 1..Len(table) |->
                     IF table[i].id = login_attempt_id
                     THEN [table[i] EXCEPT !.success = ~@]
                     ELSE table[i]],
     result |-> "Ok"]

\* A bug set_login_success could have: the filter on the id is missing and
\* every row is marked.
set_login_success_marks_all(table, login_attempt_id) ==
    [attempts |-> [i \in 1..Len(table) |->
                     [table[i] EXCEPT !.success = TRUE]],
     result |-> "Ok"]

\* SessionManager::set_login_success: UPDATE login_attempts SET success =
\* true WHERE login_attempt_id = id; Ok(()) however many rows matched.
set_login_success(table, login_attempt_id) ==
    [attempts |-> [i \in 1..Len(table) |->
                     IF table[i].id = login_attempt_id
                     THEN [table[i] EXCEPT !.success = TRUE]
                     ELSE table[i]],
     result |-> "Ok"]

\* .limit(100) of both queries.
LoginAttemptsLimit == 100

\* Rows with equal attempted_at come back in an order the query does not
\* fix: here either oldest row first or newest row first.
TieOrders == {"oldest_first", "newest_first"}

Min(a, b) == IF a <= b THEN a ELSE b

\* A bug the queries could have: .asc() where .desc() is meant.
order_by_asc_limit(table, matching, tie) ==
    LET before(j, i) ==
            \/ table[j].attempted_at < table[i].attempted_at
            \/ /\ table[j].attempted_at = table[i].attempted_at
               /\ IF tie = "oldest_first" THEN j < i ELSE j > i
        rank == [i \in matching |->
                    Cardinality({j \in matching : before(j, i)})] @@ << >>
        n == Min(Cardinality(matching), LoginAttemptsLimit)
    IN  [k \in 1..n |-> table[CHOOSE i \in matching : rank[i] = k - 1]]

\* .order_by(attempted_at.desc()).limit(100).get_results(): the rows of
\* table at the positions in matching, latest first, cut to the limit.
order_by_desc_limit(table, matching, tie) ==
    LET before(j, i) ==
            \/ table[j].attempted_at > table[i].attempted_at
            \/ /\ table[j].attempted_at = table[i].attempted_at
               /\ IF tie = "oldest_first" THEN j < i ELSE j > i
        \* (@@ makes the table of ranks a value computed once)
        rank == [i \in matching |->
                    Cardinality({j \in matching : before(j, i)})] @@ << >>
        n == Min(Cardinality(matching), LoginAttemptsLimit)
    IN  [k \in 1..n |-> table[CHOOSE i \in matching : rank[i] = k - 1]]

\* A bug get_login_attempts could have: attempted_at >= since.
get_login_attempts_inclusive(table, user_id, since, tie) ==
    order_by_desc_limit(
        table,
        {i \in 1..Len(table) :
            /\ table[i].attempted_at >= since
            /\ table[i].user_id = Some(user_id)},
        tie)

\* SessionManager::get_login_attempts.
get_login_attempts(table, user_id, since, tie) ==
    order_by_desc_limit(
        table,
        {i \in 1..Len(table) :
            /\ table[i].attempted_at > since
            /\ table[i].user_id = Some(user_id)},
        tie)

\* SessionManager::get_all_login_attempts.
get_all_login_attempts(table, since, tie) ==
    order_by_desc_limit(
        table,
        {i \in 1..Len(table) : table[i].attempted_at > since},
        tie)

NoQuery == [kind |-> "none", user_id |-> 0, since |-> 0, rows |-> << >>]

\* ------------------------------------------------------------------------
\* The authentication path (Server::try_login_id, Server::try_login)
\* ------------------------------------------------------------------------

NoCall == [user_id |-> None, username_or_email |-> None,
           password |-> "", remote_address |-> None]

\* The user a call is about: given (by id) or looked up (by name); an
\* error of the lookup is the call's error.
resolve(c) ==
    IF IsSome(c.user_id) THEN Ok(c.user_id)
    ELSE get_user_from_name(Unwrap(c.username_or_email))

\* The resolved user of a call whose lookup did not fail, or None.
resolved(c) == IF IsOk(resolve(c)) THEN resolve(c)[2] ELSE None

\* Whether the call's credential is valid; an unresolved identity is not.
verify(c) ==
    IsSome(resolved(c)) /\ password_check(Unwrap(resolved(c)), c.password)

\* One login.  An error of the user lookup is returned as it is.  Otherwise,
\* as one transaction: insert the attempt with the outcome of the credential
\* check and, on success, the session that references it; answer with the
\* session id or with AuthenticationFailed.
login(c, table, seq, stable, sseq, now) ==
    LET added == add_login_attempt(table, seq, now, resolved(c),
                                   c.username_or_email, c.remote_address,
                                   verify(c))
    IN  IF ~IsOk(resolve(c))
        THEN [attempts |-> table, seq |-> seq, sessions |-> stable,
              sseq |-> sseq, result |-> resolve(c)]
        ELSE [attempts |-> added.attempts,
              seq |-> added.seq,
              sessions |-> IF verify(c)
                           THEN Append(stable,
                                       Session(sseq, Unwrap(resolved(c)),
                                               added.id))
                           ELSE stable,
              sseq |-> IF verify(c) THEN sseq + 1 ELSE sseq,
              result |-> IF verify(c) THEN Ok(sseq)
                         ELSE AuthenticationFailed]

\* The error a failed statement surfaces as.
StorageFailure == <<"Err", "StorageFailure">>

\* A call that panicked returns nothing; this stands where its value would.
Panicked == <<"Panic", "One of user_id or username_or_email must be Some(_)">>

\* A bug add_login_attempt could have: the error of the insert is swallowed
\* and a default id is returned.
add_login_attempt_swallows_error(table, seq, now, user_id, username_or_email, remote_address, success, stored) ==
    LET added == add_login_attempt(table, seq, now, user_id,
                                   username_or_email, remote_address, success)
    IN  IF added.panic
        THEN [attempts |-> added.attempts, seq |-> added.seq,
              result |-> Panicked]
        ELSE IF ~stored
        THEN [attempts |-> table, seq |-> seq, result |-> Ok(0)]
        ELSE [attempts |-> added.attempts, seq |-> added.seq,
              result |-> Ok(added.id)]

\* What a call of SessionManager::add_login_attempt comes to: a panic in
\* the logging block, before any statement; or Err from the insert
\* (get_result(...)?), which has then written nothing; or Ok(id).
add_login_attempt_result(table, seq, now, user_id, username_or_email, remote_address, success, stored) ==
    LET added == add_login_attempt(table, seq, now, user_id,
                                   username_or_email, remote_address, success)
    IN  IF added.panic
        THEN [attempts |-> added.attempts, seq |-> added.seq,
              result |-> Panicked]
        ELSE IF ~stored
        THEN [attempts |-> table, seq |-> seq, result |-> StorageFailure]
        ELSE [attempts |-> added.attempts, seq |-> added.seq,
              result |-> Ok(added.id)]

\* One login against a database that may fail the insert.  As login, but
\* an Err of add_login_attempt ends the transaction: it is rolled back and
\* the error is the call's answer.
login_in_transaction(c, table, seq, stable, sseq, now, stored) ==
    LET ins == add_login_attempt_result(table, seq, now, resolved(c),
                                        c.username_or_email,
                                        c.remote_address, verify(c), stored)
    IN  IF ~IsOk(resolve(c))
        THEN [attempts |-> table, seq |-> seq, sessions |-> stable,
              sseq |-> sseq, result |-> resolve(c)]
        ELSE IF ~IsOk(ins.result)
        THEN [attempts |-> table, seq |-> seq, sessions |-> stable,
              sseq |-> sseq, result |-> ins.result]
        ELSE [attempts |-> ins.attempts,
              seq |-> ins.seq,
              sessions |-> IF verify(c)
                           THEN Append(stable,
                                       Session(sseq, Unwrap(resolved(c)),
                                               ins.result[2]))
                           ELSE stable,
              sseq |-> IF verify(c) THEN sseq + 1 ELSE sseq,
              result |-> IF verify(c) THEN Ok(sseq)
                         ELSE AuthenticationFailed]

\* ------------------------------------------------------------------------
\* Actions of the session manager's callers
\* ------------------------------------------------------------------------

InFlight == {p \in DOMAIN pc : pc[p] = "called"}

\* Callers stop logging in once the table would pass MaxAttempts rows.
RoomForCall == Len(attempts) + Cardinality(InFlight) < MaxAttempts

\* Server::try_login_id(user_id, password, remote_address) is called.
TryLoginId(p) ==
    /\ pc[p] = "idle"
    /\ RoomForCall
    /\ \E u \in Users, pw \in Passwords, addr \in Addresses :
         call' = [call EXCEPT ![p] = [user_id |-> Some(u),
                                      username_or_email |-> None,
                                      password |-> pw,
                                      remote_address |-> addr]]
    /\ pc' = [pc EXCEPT ![p] = "called"]
    /\ result' = [result EXCEPT ![p] = None]
    /\ UNCHANGED <<attempts, login_attempt_seq, sessions, session_seq,
                   clock, rpcvars, query,
                   envvars, uservars>>

\* Server::try_login(username_or_email, password, remote_address) is called.
TryLogin(p) ==
    /\ pc[p] = "idle"
    /\ RoomForCall
    /\ \E n \in Names, pw \in Passwords, addr \in Addresses :
         call' = [call EXCEPT ![p] = [user_id |-> None,
                                      username_or_email |-> Some(n),
                                      password |-> pw,
                                      remote_address |-> addr]]
    /\ pc' = [pc EXCEPT ![p] = "called"]
    /\ result' = [result EXCEPT ![p] = None]
    /\ UNCHANGED <<attempts, login_attempt_seq, sessions, session_seq,
                   clock, rpcvars, query,
                   envvars, uservars>>

\* The login's transaction commits and the call returns.
LoginCommit(p) ==
    /\ pc[p] = "called"
    /\ LET done == login(call[p], attempts, login_attempt_seq,
                         sessions, session_seq, clock)
       IN  /\ attempts' = done.attempts
           /\ login_attempt_seq' = done.seq
           /\ sessions' = done.sessions
           /\ session_seq' = done.sseq
           /\ result' = [result EXCEPT ![p] = done.result]
    /\ pc' = [pc EXCEPT ![p] = "idle"]
    /\ call' = [call EXCEPT ![p] = NoCall]
    /\ UNCHANGED <<clock, rpcvars, query,
                   envvars, uservars>>

\* SessionManager::set_login_success(id), for an id that may match no row.
SetLoginSuccess ==
    /\ \E id \in 1..(MaxAttempts + 1) :
         attempts' = set_login_success(attempts, id).attempts
    /\ UNCHANGED <<login_attempt_seq, sessions, session_seq, clock,
                   pc, call, result, rpcvars, query,
                   envvars, uservars>>

\* Time passes on the database's clock.
Tick ==
    /\ clock < MaxClock
    /\ clock' = clock + 1
    /\ UNCHANGED <<attempts, login_attempt_seq, sessions, session_seq,
                   pc, call, result, rpcvars, query,
                   envvars, uservars>>

Init ==
    /\ attempts = << >>
    /\ login_attempt_seq = 1
    /\ sessions = << >>
    /\ session_seq = 1
    /\ clock = 0
    /\ pc = [p \in Procs |-> "idle"]
    /\ call = [p \in Procs |-> NoCall]
    /\ result = [p \in Procs |-> None]
    /\ backlog = << >>
    /\ channels = EmptyBag
    /\ arrived = 0
    /\ listening = TRUE
    /\ warned = 0
    /\ storage_up = TRUE
    /\ system_time = 0
    /\ users = << >>
    /\ user_seq = 1
    /\ passwords = << >>
    /\ query = NoQuery

Next ==
    \/ \E p \in Procs : TryLoginId(p)
    \/ \E p \in Procs : TryLogin(p)
    \/ \E p \in Procs : LoginCommit(p)
    \/ SetLoginSuccess
    \/ Tick

Spec == Init /\ [][Next]_vars

\* ------------------------------------------------------------------------
\* The RPC listener (deepwell-rpc: Server::run)
\* ------------------------------------------------------------------------

\* Prevent network socket exhaustion or related slowdown
MAX_PARALLEL_REQUESTS == 16

\* An item of the listener's stream: Ok(conn), with the requests the client
\* has already written to the connection, or Err(error).
Incoming(ok, calls) == [ok |-> ok, calls |-> calls]

\* Channels held by buffer_unordered.
Serving == BagCardinality(channels)

\* A bug the listener could have: the buffer takes one channel more than
\* MAX_PARALLEL_REQUESTS.
buffer_has_room_inclusive(serving) == serving <= MAX_PARALLEL_REQUESTS

\* buffer_unordered(MAX_PARALLEL_REQUESTS) polls the stream only while it
\* holds fewer futures than its limit.
buffer_has_room(serving) == serving < MAX_PARALLEL_REQUESTS

\* A bug the listener could have: an Err of the stream ends it (as with
\* try_for_each or `?`), and run returns.
filter_map_or_stop(item) ==
    [channel |-> IF item.ok THEN Some(item.calls) ELSE None,
     warnings |-> IF item.ok THEN 0 ELSE 1,
     listening |-> item.ok]

\* The filter_map over the stream: Ok(conn) is passed on, an Err is logged
\* with warn! and dropped; the stream goes on either way.
filter_map(item) ==
    [channel |-> IF item.ok THEN Some(item.calls) ELSE None,
     warnings |-> IF item.ok THEN 0 ELSE 1,
     listening |-> TRUE]

\* A bug the listener could have: the end of one channel takes the others
\* with it.
channel_ended_fatal(chs, n) == EmptyBag

\* The execute() future of a channel with n requests in flight completes:
\* for_each consumes it and the buffer holds the other channels.
channel_ended(chs, n) == chs (-) SetToBag({n})

\* Err items waiting in the stream.
ErrorsWaiting == Cardinality({i \in 1..Len(backlog) : ~backlog[i].ok})

RECURSIVE SumInFlight(_)
SumInFlight(ns) ==
    IF ns = {} THEN 0
    ELSE LET n == CHOOSE x \in ns : TRUE
         IN  n * CopiesIn(n, channels) + SumInFlight(ns \ {n})

\* Request handlers spawned by the served channels and not yet finished.
TotalInFlight == SumInFlight(BagToSet(channels))

\* A client connects; the connection waits for the listener to take it.
Connect ==
    /\ arrived < MaxConns
    /\ Len(backlog) < MaxBacklog
    /\ backlog' = Append(backlog, Incoming(TRUE, 0))
    /\ arrived' = arrived + 1
    /\ UNCHANGED <<channels, listening, warned, dbvars, query,
                   envvars, uservars>>

\* A connection attempt goes wrong: the stream's next item is an Err.
ConnectError ==
    /\ arrived < MaxConns
    /\ Len(backlog) < MaxBacklog
    /\ warned + ErrorsWaiting < MaxAcceptErrors
    /\ backlog' = Append(backlog, Incoming(FALSE, 0))
    /\ arrived' = arrived + 1
    /\ UNCHANGED <<channels, listening, warned, dbvars, query,
                   envvars, uservars>>

\* A client writes a request to a connection the listener has not taken yet.
SubmitWaiting ==
    /\ \E i \in 1..Len(backlog) :
         /\ backlog[i].ok
         /\ backlog[i].calls < MaxPipelined
         /\ backlog' = [backlog EXCEPT ![i].calls = @ + 1]
    /\ UNCHANGED <<channels, arrived, listening, warned, dbvars, query,
                   envvars, uservars>>

\* buffer_unordered polls the stream, which it does only while it holds
\* fewer than MAX_PARALLEL_REQUESTS channels.  filter_map drops an Err
\* (logged); an Ok(conn) becomes a channel whose execute() future joins the
\* buffer and spawns a handler for each request already written.
Accept ==
    /\ listening
    /\ buffer_has_room(Serving)
    /\ backlog # << >>
    /\ LET item == filter_map(Head(backlog))
       IN  /\ channels' = IF IsSome(item.channel)
                          THEN channels (+) SetToBag({Unwrap(item.channel)})
                          ELSE channels
           /\ warned' = warned + item.warnings
           /\ listening' = item.listening
    /\ backlog' = Tail(backlog)
    /\ UNCHANGED <<arrived, dbvars, query, envvars, uservars>>

\* A served channel reads a request; execute() spawns its handler
\* (protocol, ping or time, none of which touches the database).
Request ==
    /\ \E n \in BagToSet(channels) :
         /\ n < MaxPipelined
         /\ channels' = (channels (-) SetToBag({n})) (+) SetToBag({n + 1})
    /\ UNCHANGED <<backlog, arrived, listening, warned, dbvars, query,
                   envvars, uservars>>

\* A handler finishes and its response is written to its channel.
Respond ==
    /\ \E n \in BagToSet(channels) :
         /\ n > 0
         /\ channels' = (channels (-) SetToBag({n})) (+) SetToBag({n - 1})
    /\ UNCHANGED <<backlog, arrived, listening, warned, dbvars, query,
                   envvars, uservars>>

\* A served connection closes or fails: its execute() future completes,
\* for_each consumes the result and the buffer has one channel fewer.
Disconnect ==
    /\ \E n \in BagToSet(channels) :
         channels' = channel_ended(channels, n)
    /\ UNCHANGED <<backlog, arrived, listening, warned, dbvars, query,
                   envvars, uservars>>

NextDispatch ==
    \/ Connect
    \/ ConnectError
    \/ SubmitWaiting
    \/ Accept
    \/ Request
    \/ Respond
    \/ Disconnect

SpecDispatch == Init /\ [][NextDispatch]_vars

\* The listener keeps polling and every handler runs to its end; what the
\* clients do (connect, write, disconnect) is up to them.
FairDispatch ==
    /\ Init
    /\ [][NextDispatch]_vars
    /\ WF_vars(Accept)
    /\ WF_vars(Respond)

\* ------------------------------------------------------------------------
\* N simultaneous wrong-password logins for one user
\* ------------------------------------------------------------------------

\* A login for user 1 ("squirrelbird") whose password is wrong, by id or by
\* name, from any address.
WrongPasswordCalls ==
    {[user_id |-> u, username_or_email |-> n,
      password |-> "letmein", remote_address |-> addr] :
        u \in {Some(1)}, n \in {None}, addr \in Addresses}
    \cup
    {[user_id |-> u, username_or_email |-> n,
      password |-> "letmein", remote_address |-> addr] :
        u \in {None}, n \in {Some("squirrelbird")}, addr \in Addresses}

\* Every caller has issued such a login and none has committed yet.
InitWrongPassword ==
    /\ attempts = << >>
    /\ login_attempt_seq = 1
    /\ sessions = << >>
    /\ session_seq = 1
    /\ clock = 0
    /\ pc = [p \in Callers |-> "called"]
    /\ call \in [Callers -> WrongPasswordCalls]
    /\ result = [p \in Callers |-> None]
    /\ backlog = << >>
    /\ channels = EmptyBag
    /\ arrived = 0
    /\ listening = TRUE
    /\ warned = 0
    /\ storage_up = TRUE
    /\ system_time = 0
    /\ users = << >>
    /\ user_seq = 1
    /\ passwords = << >>
    /\ query = NoQuery

NextWrongPassword ==
    \/ \E p \in Callers : LoginCommit(p)
    \/ Tick

SpecWrongPassword == InitWrongPassword /\ [][NextWrongPassword]_vars

\* ------------------------------------------------------------------------
\* Audit queries on a filled table
\* ------------------------------------------------------------------------

\* How the table was filled, as <<stride, per_tick>>: every stride-th login
\* is user 2's and the others are user 1's, and per_tick consecutive logins
\* fall into one tick of the clock.
Fillings == {<<2, 1>>, <<50, 4>>}

\* The since arguments of the queries.
Sinces == {0, 1}

\* The table after n failed logins by id, committed one after the other.
FilledTable(n, stride, per_tick) ==
    [i \in 1..n |->
        LoginAttempt(i, Some(IF i % stride = 0 THEN 2 ELSE 1), None, None,
                     FALSE, 1 + ((i - 1) \div per_tick))]

InitAudit ==
    /\ \E n \in 0..MaxRows, f \in Fillings :
         /\ attempts = FilledTable(n, f[1], f[2])
         /\ login_attempt_seq = n + 1
         /\ clock = 1 + (n \div f[2])
    /\ sessions = << >>
    /\ session_seq = 1
    /\ pc = [p \in Procs |-> "idle"]
    /\ call = [p \in Procs |-> NoCall]
    /\ result = [p \in Procs |-> None]
    /\ backlog = << >>
    /\ channels = EmptyBag
    /\ arrived = 0
    /\ listening = TRUE
    /\ warned = 0
    /\ storage_up = TRUE
    /\ system_time = 0
    /\ users = << >>
    /\ user_seq = 1
    /\ passwords = << >>
    /\ query = NoQuery

\* The auditor calls get_login_attempts(user_id, since), which returns.
GetLoginAttempts ==
    /\ query = NoQuery
    /\ \E u \in Users, since \in Sinces, tie \in TieOrders :
         query' = [kind |-> "user", user_id |-> u, since |-> since,
                   rows |-> get_login_attempts(attempts, u, since, tie)]
    /\ UNCHANGED <<dbvars, rpcvars, envvars, uservars>>

\* The auditor calls get_all_login_attempts(since), which returns.
GetAllLoginAttempts ==
    /\ query = NoQuery
    /\ \E since \in Sinces, tie \in TieOrders :
         query' = [kind |-> "all", user_id |-> 0, since |-> since,
                   rows |-> get_all_login_attempts(attempts, since, tie)]
    /\ UNCHANGED <<dbvars, rpcvars, envvars, uservars>>

\* The auditor is done with the rows it got.
DropRows ==
    /\ query # NoQuery
    /\ query' = NoQuery
    /\ UNCHANGED <<dbvars, rpcvars, envvars, uservars>>

NextAudit ==
    \/ GetLoginAttempts
    \/ GetAllLoginAttempts
    \/ DropRows

SpecAudit == InitAudit /\ [][NextAudit]_vars

\* ------------------------------------------------------------------------
\* The informational calls (deepwell-rpc: impl DeepwellApi for Server)
\* ------------------------------------------------------------------------

PROTOCOL_VERSION == "0"

\* A reading of SystemTime::now() that lies before UNIX_EPOCH.
BeforeEpoch == 0 - 1

\* Server::protocol.
protocol == PROTOCOL_VERSION

\* Server::ping.
ping == "pong!"

\* A bug time could have: a clock before the epoch is read as the epoch
\* (unwrap_or_default).
time_or_epoch(now) == Ok(IF now < 0 THEN 0 ELSE now)

\* Server::time: the seconds since the epoch; duration_since fails for a
\* clock before the epoch and expect panics on that.
time(now) ==
    IF now < 0 THEN <<"Panic", "System time before epoch">> ELSE Ok(now)

\* The tables after n logins by id with the right password.
RECURSIVE AfterLogins(_)
AfterLogins(n) ==
    IF n = 0
    THEN [attempts |-> << >>, seq |-> 1, sessions |-> << >>, sseq |-> 1]
    ELSE LET before == AfterLogins(n - 1)
         IN  login([user_id |-> Some(1), username_or_email |-> None,
                    password |-> "blackmoonhowls", remote_address |-> None],
                   before.attempts, before.seq, before.sessions,
                   before.sseq, 0)

\* The server runs over tables that hold some logins and their sessions.
InitInfo ==
    /\ \E n \in 0..MaxAttempts :
         /\ attempts = AfterLogins(n).attempts
         /\ login_attempt_seq = AfterLogins(n).seq
         /\ sessions = AfterLogins(n).sessions
         /\ session_seq = AfterLogins(n).sseq
    /\ clock = 0
    /\ pc = [p \in Procs |-> "idle"]
    /\ call = [p \in Procs |-> NoCall]
    /\ result = [p \in Procs |-> None]
    /\ backlog = << >>
    /\ channels = EmptyBag
    /\ arrived = 0
    /\ listening = TRUE
    /\ warned = 0
    /\ storage_up = TRUE
    /\ system_time = 0
    /\ users = << >>
    /\ user_seq = 1
    /\ passwords = << >>
    /\ query = NoQuery

\* Client p calls protocol and gets the reply.
Protocol(p) ==
    /\ result' = [result EXCEPT ![p] = <<"protocol", protocol>>]
    /\ UNCHANGED <<attempts, login_attempt_seq, sessions, session_seq, clock,
                   pc, call, rpcvars, query, envvars, uservars>>

\* Client p calls ping and gets the reply.
Ping(p) ==
    /\ result' = [result EXCEPT ![p] = <<"ping", ping>>]
    /\ UNCHANGED <<attempts, login_attempt_seq, sessions, session_seq, clock,
                   pc, call, rpcvars, query, envvars, uservars>>

\* Client p calls time; the handler answers or panics.
Time(p) ==
    /\ result' = [result EXCEPT ![p] = <<"time", time(system_time)>>]
    /\ UNCHANGED <<attempts, login_attempt_seq, sessions, session_seq, clock,
                   pc, call, rpcvars, query, envvars, uservars>>

\* The server's clock is set, possibly to before the epoch.
SetSystemTime ==
    /\ \E t \in BeforeEpoch..MaxUnixTime : system_time' = t
    /\ UNCHANGED <<dbvars, rpcvars, query, storage_up, uservars>>

NextInfo ==
    \/ \E p \in Procs : Protocol(p)
    \/ \E p \in Procs : Ping(p)
    \/ \E p \in Procs : Time(p)
    \/ SetSystemTime

SpecInfo == InitInfo /\ [][NextInfo]_vars

\* ------------------------------------------------------------------------
\* User creation (Server::create_user)
\* ------------------------------------------------------------------------

\* Where a create_user call meets a failing statement, if anywhere.
FailurePoints == {"none", "create", "set", "commit"}

Emails == {"jenny@example.net"}

\* UserService::create: insert the user and return its id, drawn from the
\* serial; or fail, with nothing written.
user_create(table, seq, name, email, ok) ==
    IF ok
    THEN [users |-> Append(table, [id |-> seq, name |-> name,
                                   email |-> email]),
          seq |-> seq + 1,
          result |-> Ok(seq)]
    ELSE [users |-> table, seq |-> seq, result |-> StorageFailure]

\* PasswordService::set: store the password of a user; or fail, with
\* nothing written.
password_set(table, user_id, password, ok) ==
    IF ok
    THEN [passwords |-> Append(table, [user_id |-> user_id,
                                       password |-> password]),
          result |-> Ok(user_id)]
    ELSE [passwords |-> table, result |-> StorageFailure]

\* The closure of create_user: create the user, then set its password; `?`
\* leaves at the first Err.
create_user_closure(utable, seq, ptable, name, email, password, fail) ==
    LET created == user_create(utable, seq, name, email, fail # "create")
        set == password_set(ptable, created.result[2], password,
                            fail # "set")
    IN  IF ~IsOk(created.result)
        THEN [users |-> created.users, seq |-> created.seq,
              passwords |-> ptable, result |-> created.result]
        ELSE [users |-> created.users, seq |-> created.seq,
              passwords |-> set.passwords,
              result |-> IF IsOk(set.result) THEN Ok(created.result[2])
                         ELSE set.result]

\* A bug create_user could have: the two statements run outside a
\* transaction, so what the first wrote stays when the second fails.
create_user_no_transaction(utable, seq, ptable, name, email, password, fail) ==
    create_user_closure(utable, seq, ptable, name, email, password, fail)

\* Server::create_user: the closure inside conn.transaction, which commits
\* when the closure returns Ok and rolls back when it returns Err; a commit
\* that fails rolls back too.  The serial keeps the id it handed out.
create_user(utable, seq, ptable, name, email, password, fail) ==
    LET body == create_user_closure(utable, seq, ptable, name, email,
                                    password, fail)
    IN  IF IsOk(body.result) /\ fail # "commit"
        THEN body
        ELSE [users |-> utable, seq |-> body.seq, passwords |-> ptable,
              result |-> IF IsOk(body.result) THEN StorageFailure
                         ELSE body.result]

\* Caller p calls create_user(name, email, password), which returns.
CreateUser(p) ==
    /\ user_seq <= MaxUsers
    /\ \E n \in Names, e \in Emails, pw \in Passwords, f \in FailurePoints :
         LET done == create_user(users, user_seq, passwords, n, e, pw, f)
         IN  /\ users' = done.users
             /\ user_seq' = done.seq
             /\ passwords' = done.passwords
             /\ result' = [result EXCEPT ![p] = done.result]
    /\ UNCHANGED <<attempts, login_attempt_seq, sessions, session_seq, clock,
                   pc, call, rpcvars, query, envvars>>

NextUsers == \E p \in Procs : CreateUser(p)

SpecUsers == Init /\ [][NextUsers]_vars

\* ------------------------------------------------------------------------
\* Properties
\* ------------------------------------------------------------------------

\* ------------------------------------------------------------------------
\* The session manager over a database that can fail
\* ------------------------------------------------------------------------

\* The arguments a direct caller of add_login_attempt passes.
DirectUsers == {None, Some(1)}

DirectNames == {None, Some("squirrel")}

\* The login's transaction ends, committed or rolled back, and the call
\* returns.
LoginTransaction(p) ==
    /\ pc[p] = "called"
    /\ LET done == login_in_transaction(call[p], attempts, login_attempt_seq,
                                        sessions, session_seq, clock,
                                        storage_up)
       IN  /\ attempts' = done.attempts
           /\ login_attempt_seq' = done.seq
           /\ sessions' = done.sessions
           /\ session_seq' = done.sseq
           /\ result' = [result EXCEPT ![p] = done.result]
    /\ pc' = [pc EXCEPT ![p] = "idle"]
    /\ call' = [call EXCEPT ![p] = NoCall]
    /\ UNCHANGED <<clock, rpcvars, query, envvars, uservars>>

\* SessionManager::add_login_attempt is called on its own, with whatever
\* arguments the caller has, and returns or panics.
AddLoginAttempt(p) ==
    /\ pc[p] = "idle"
    /\ RoomForCall
    /\ \E u \in DirectUsers, n \in DirectNames, success \in BOOLEAN :
         LET done == add_login_attempt_result(attempts, login_attempt_seq,
                                              clock, u, n, None, success,
                                              storage_up)
         IN  /\ attempts' = done.attempts
             /\ login_attempt_seq' = done.seq
             /\ result' = [result EXCEPT ![p] = done.result]
    /\ UNCHANGED <<sessions, session_seq, clock, pc, call, rpcvars, query,
                   envvars, uservars>>

\* The database stops executing statements (connection lost, constraint
\* violated).
StorageFails ==
    /\ storage_up
    /\ storage_up' = FALSE
    /\ UNCHANGED <<dbvars, rpcvars, query, system_time,
                   uservars>>

\* The database executes statements again.
StorageRecovers ==
    /\ ~storage_up
    /\ storage_up' = TRUE
    /\ UNCHANGED <<dbvars, rpcvars, query, system_time,
                   uservars>>

NextStorage ==
    \/ \E p \in Procs : TryLoginId(p)
    \/ \E p \in Procs : TryLogin(p)
    \/ \E p \in Procs : LoginTransaction(p)
    \/ \E p \in Procs : AddLoginAttempt(p)
    \/ StorageFails
    \/ StorageRecovers

SpecStorage == Init /\ [][NextStorage]_vars

\* The callers whose login returns in the step from the unprimed to the
\* primed state.
Returning == {p \in DOMAIN pc : pc[p] = "called" /\ pc'[p] = "idle"}

RowIds(table) == {table[i].id : i \in 1..Len(table)}

SessionsOf(id) == {i \in 1..Len(sessions) : sessions[i].login_attempt_id = id}

\* C1: every step adds exactly as many login_attempts rows as login calls
\* return in it, whatever their outcome; so k completed calls leave exactly
\* k more rows.
C1_OneRowPerCall ==
    [][Len(attempts') = Len(attempts) + Cardinality(Returning)]_vars

\* Two calls have returned and left two rows: one failed for an unknown
\* name, one succeeded.
C1_Witness ==
    /\ Len(attempts) = 2
    /\ \A p \in Procs : pc[p] = "idle" /\ result[p] # None
    /\ \E i \in 1..2 : ~IsSome(attempts[i].user_id) /\ ~attempts[i].success
    /\ \E i \in 1..2 : attempts[i].success

\* C2 as stated: in every state a row has success = true exactly when a
\* session references it.
C2_SessionIffSuccess ==
    \A i \in 1..Len(attempts) :
        attempts[i].success <=> SessionsOf(attempts[i].id) # {}

\* C2 amended: a session is created exactly for the rows inserted with
\* success = true, in the step that inserts them: every row a step adds has
\* success = true iff the step adds a session referencing it, and a step
\* adds sessions for no other row.
C2_SessionIffSuccessAtInsert ==
    [][/\ \A i \in (Len(attempts) + 1)..Len(attempts') :
            attempts'[i].success <=>
                \E j \in (Len(sessions) + 1)..Len(sessions') :
                    sessions'[j].login_attempt_id = attempts'[i].id
       /\ \A j \in (Len(sessions) + 1)..Len(sessions') :
            \E i \in (Len(attempts) + 1)..Len(attempts') :
                sessions'[j].login_attempt_id = attempts'[i].id
       /\ \A j \in 1..Len(sessions) :
            j <= Len(sessions') /\ sessions'[j] = sessions[j]]_vars

\* One row was inserted successful and has its session; another was marked
\* successful afterwards and has none.
C2_Witness ==
    /\ Len(attempts) = 2
    /\ \A i \in 1..2 : attempts[i].success
    /\ \E i \in 1..2 : SessionsOf(attempts[i].id) # {}
    /\ \E i \in 1..2 : SessionsOf(attempts[i].id) = {}

\* C3: a login that returns without a valid credential returns
\* AuthenticationFailed, the same value whether the name resolved to no
\* user or the password was wrong.
C3_UniformFailure ==
    [][\A p \in Returning :
          ~verify(call[p]) => result'[p] = AuthenticationFailed]_vars

\* One caller failed on an unknown name, the other on a wrong password for
\* a known user, and both hold the same error.
C3_Witness ==
    /\ \A p \in Procs : pc[p] = "idle" /\ result[p] = AuthenticationFailed
    /\ Len(attempts) = 2
    /\ \E i \in 1..2 : ~IsSome(attempts[i].user_id)
    /\ \E i \in 1..2 : IsSome(attempts[i].user_id)

\* C4: once all the simultaneous wrong-password logins have returned, the
\* table holds one row per caller, none successful, with pairwise distinct
\* ids, and there is no session.
C4_AllWrongAttemptsRecorded ==
    (\A p \in Callers : pc[p] = "idle") =>
        /\ Len(attempts) = NumCallers
        /\ \A i \in 1..Len(attempts) : ~attempts[i].success
        /\ Cardinality(RowIds(attempts)) = Len(attempts)
        /\ sessions = << >>
        /\ \A p \in Callers : result[p] = AuthenticationFailed

\* All callers have returned, and two of the rows were written at the same
\* instant for the same user.
C4_Witness ==
    /\ \A p \in Callers : pc[p] = "idle"
    /\ Len(attempts) = NumCallers
    /\ attempts[1].attempted_at = attempts[2].attempted_at
    /\ attempts[1].user_id = attempts[2].user_id

\* C7: no step removes a row or changes a column of an existing row, except
\* that success may go from false to true.
C7_SuccessOnlyRises ==
    [][/\ Len(attempts') >= Len(attempts)
       /\ \A i \in 1..Len(attempts) :
            /\ attempts'[i].success \in BOOLEAN
            /\ attempts'[i] =
                 [attempts[i] EXCEPT
                    !.success = attempts[i].success \/ attempts'[i].success]]_vars

\* A row inserted with success = false has been marked successful: it is
\* successful and no session references it.
C7_Witness ==
    \E i \in 1..Len(attempts) :
        attempts[i].success /\ SessionsOf(attempts[i].id) = {}

\* C8: set_login_success on a row that is already successful returns Ok and
\* leaves the table as it is, a second application equals the first, and a
\* step that is no login leaves the sessions as they are.
C8_MarkSuccessIdempotent ==
    /\ [](\A id \in 1..(MaxAttempts + 1) :
            LET once == set_login_success(attempts, id)
                twice == set_login_success(once.attempts, id)
            IN  /\ twice = once
                /\ (\E i \in 1..Len(attempts) :
                        attempts[i].id = id /\ attempts[i].success)
                   => once = [attempts |-> attempts, result |-> "Ok"])
    /\ [][Returning = {} => sessions' = sessions]_vars

\* A row is already successful while another is not.
C8_Witness ==
    /\ Len(attempts) = 2
    /\ attempts[1].success
    /\ ~attempts[2].success

\* C9: every session references a row of login_attempts that is successful
\* and belongs to the session's user.
C9_SessionHasSuccessfulAttempt ==
    \A j \in 1..Len(sessions) :
        \E i \in 1..Len(attempts) :
            /\ attempts[i].id = sessions[j].login_attempt_id
            /\ attempts[i].success
            /\ attempts[i].user_id = Some(sessions[j].user_id)

\* Two sessions exist, for two successful logins.
C9_Witness ==
    /\ Len(sessions) = 2
    /\ sessions[1].login_attempt_id # sessions[2].login_attempt_id

\* A request written to a connection that the listener has not taken yet.
WaitingCall ==
    \E i \in 1..Len(backlog) : backlog[i].ok /\ backlog[i].calls > 0

\* C5 as stated: the request handlers in flight, summed over all channels,
\* never number more than MAX_PARALLEL_REQUESTS.
C5_CallsInFlightWithinCeiling == TotalInFlight <= MAX_PARALLEL_REQUESTS

\* C6 as stated: a request that waits is executed in the end, given that
\* every executing handler finishes (arrivals being finite, the waiting
\* requests then run out).
C6_WaitingCallExecuted == WaitingCall ~> ~WaitingCall

\* The positions of the rows the last query asked for.
Asked ==
    {i \in 1..Len(attempts) :
        /\ attempts[i].attempted_at > query.since
        /\ query.kind = "user" => attempts[i].user_id = Some(query.user_id)}

\* The positions of the rows the last query returned.
Returned ==
    {i \in 1..Len(attempts) :
        \E k \in 1..Len(query.rows) : query.rows[k] = attempts[i]}

\* C10: a query returns rows of the table, each once, all later than since
\* and (for get_login_attempts) all of the given user; it returns all such
\* rows when they are at most 100 and otherwise 100 of them, none earlier
\* than a row it leaves out.
C10_QueryFiltersAndCaps ==
    query.kind # "none" =>
        LET asked == Asked
            returned == Returned
            left_out == asked \ returned
        IN  /\ returned \subseteq asked
            /\ Cardinality(returned) = Len(query.rows)
            /\ Len(query.rows) = Min(Cardinality(asked), LoginAttemptsLimit)
            /\ \A i \in returned : \A j \in left_out :
                  attempts[i].attempted_at >= attempts[j].attempted_at

\* A query for one user met more than 100 rows to return, and rows of the
\* other user and rows not later than since that it must not return.
C10_Witness ==
    /\ query.kind = "user"
    /\ Cardinality(Asked) > LoginAttemptsLimit
    /\ Len(query.rows) = LoginAttemptsLimit
    /\ \E i \in 1..Len(attempts) :
          /\ attempts[i].user_id # Some(query.user_id)
          /\ attempts[i].attempted_at > query.since
    /\ \E i \in 1..Len(attempts) :
          /\ attempts[i].user_id = Some(query.user_id)
          /\ attempts[i].attempted_at = query.since

\* C11 as stated: in the rows get_login_attempts returns, each row is
\* strictly later than the next one.
C11_StrictlyDescending ==
    query.kind = "user" =>
        \A k \in 1..(Len(query.rows) - 1) :
            query.rows[k].attempted_at > query.rows[k + 1].attempted_at

\* C11 amended: in the rows a query returns, no row is earlier than the
\* next one; rows written at the same instant follow each other.
C11_Descending ==
    query.kind # "none" =>
        \A k \in 1..(Len(query.rows) - 1) :
            query.rows[k].attempted_at >= query.rows[k + 1].attempted_at

\* get_login_attempts returned a row later than the next one and two
\* neighbours written at the same instant.
C11_Witness ==
    /\ query.kind = "user"
    /\ \E k \in 1..(Len(query.rows) - 1) :
          query.rows[k].attempted_at > query.rows[k + 1].attempted_at
    /\ \E k \in 1..(Len(query.rows) - 1) :
          query.rows[k].attempted_at = query.rows[k + 1].attempted_at

\* C12 as stated: get_login_attempts with since before every login returns
\* the user's logins in the order they were made (ids rise with the order of
\* the inserts): the first login at index 0, the most recent one last.
C12_ReturnedInOrderMade ==
    (/\ query.kind = "user"
     /\ \A i \in 1..Len(attempts) : attempts[i].attempted_at > query.since)
    => /\ \A k \in 1..(Len(query.rows) - 1) :
            query.rows[k].id < query.rows[k + 1].id
       /\ \A i \in 1..Len(attempts) :
            attempts[i].user_id = Some(query.user_id) =>
                /\ Len(query.rows) > 0
                /\ query.rows[1].id <= attempts[i].id

\* C13: the row a login writes records the call: the user the call resolved
\* to or None, the name or email exactly as submitted (None for a login by
\* id), the remote address or None, and success = the outcome of the
\* credential check, stamped with the database's now().
C13_RowRecordsCall ==
    [][\A p \in Returning :
          /\ Len(attempts') = Len(attempts) + 1
          /\ LET row == attempts'[Len(attempts')]
             IN  /\ row.user_id = resolved(call[p])
                 /\ row.username_or_email = call[p].username_or_email
                 /\ row.remote_address = call[p].remote_address
                 /\ row.success = verify(call[p])
                 /\ row.attempted_at = clock]_vars

\* A login by a name nobody has, with a remote address, left a failed row
\* with no user and the name as typed; a login by a name that resolved left
\* a row with both the user and the name.
C13_Witness ==
    /\ \E i \in 1..Len(attempts) :
          /\ ~IsSome(attempts[i].user_id)
          /\ attempts[i].username_or_email = Some("squirrel")
          /\ IsSome(attempts[i].remote_address)
          /\ ~attempts[i].success
    /\ \E i \in 1..Len(attempts) :
          /\ attempts[i].user_id = Some(1)
          /\ attempts[i].username_or_email = Some("squirrelbird")
          /\ attempts[i].success

\* C14: a login whose insert of the attempt fails at the database leaves
\* the login_attempts and sessions tables as they were (no attempt row, no
\* session) and returns StorageFailure, an error other than
\* AuthenticationFailed, whether the password was right or wrong.
C14_InsertFailureAborts ==
    [][\A p \in Returning :
          (~storage_up /\ IsOk(resolve(call[p]))) =>
              /\ attempts' = attempts
              /\ sessions' = sessions
              /\ result'[p] = StorageFailure
              /\ ~IsOk(result'[p])
              /\ result'[p] # AuthenticationFailed]_vars

\* The tables hold a committed attempt and its session, one call has been
\* answered StorageFailure, and a login with the right password is in its
\* transaction while the database is down.
C14_Witness ==
    /\ ~storage_up
    /\ Len(attempts) >= 1
    /\ Len(sessions) >= 1
    /\ \E p \in Procs : pc[p] = "idle" /\ result[p] = StorageFailure
    /\ \E p \in Procs : pc[p] = "called" /\ verify(call[p])

\* C15: add_login_attempt called with neither a user id nor a name panics,
\* whatever its other arguments and whether the database is up: it returns
\* neither Ok nor an Err such as AuthenticationFailed, and it inserts no row
\* and uses no id; a step in which a caller's call panics leaves the tables
\* unchanged.
C15_MalformedCallPanics ==
    /\ [](\A addr \in Addresses, success \in BOOLEAN :
            LET done == add_login_attempt_result(
                            attempts, login_attempt_seq, clock, None, None,
                            addr, success, storage_up)
            IN  /\ done.result = Panicked
                /\ done.result[1] \notin {"Ok", "Err"}
                /\ done.attempts = attempts
                /\ done.seq = login_attempt_seq)
    /\ [][\A p \in Procs :
            (result'[p] = Panicked /\ result[p] # Panicked) =>
                /\ attempts' = attempts
                /\ sessions' = sessions]_vars

\* A direct call with neither argument has panicked on a table that already
\* holds a row, with the database up.
C15_Witness ==
    /\ storage_up
    /\ Len(attempts) >= 1
    /\ \E p \in Procs : pc[p] = "idle" /\ result[p] = Panicked

\* C16: a failed connection attempt costs only itself.  The step that takes
\* an Err from the stream logs one warning and leaves the served channels
\* and the listener as they were; run never returns; and whenever a
\* connection waits and the buffer has room, the listener can take it, so
\* one that arrives after an error is still accepted.
C16_AcceptErrorIsolated ==
    /\ [](listening)
    /\ []((backlog # << >> /\ Serving < MAX_PARALLEL_REQUESTS)
            => ENABLED Accept)
    /\ [][(backlog # << >> /\ ~Head(backlog).ok /\ Len(backlog') < Len(backlog))
            => /\ channels' = channels
               /\ listening'
               /\ warned' = warned + 1]_vars

\* An accept error has been logged; the listener is running, serves a
\* channel that has a request in flight and has a further connection to
\* take.
C16_Witness ==
    /\ warned >= 1
    /\ listening
    /\ \E n \in BagToSet(channels) : n >= 1
    /\ backlog # << >>
    /\ Head(backlog).ok

\* C17: the end of one served channel, by failure or close, removes that
\* channel alone: the other channels keep their requests in flight, the
\* listener keeps running with its waiting connections untouched, and the
\* buffer has one free slot more.
C17_ChannelFailureIsolated ==
    [][Serving' < Serving =>
          /\ \E n \in BagToSet(channels) :
                channels' = channels (-) SetToBag({n})
          /\ Serving' = Serving - 1
          /\ Serving' < MAX_PARALLEL_REQUESTS
          /\ listening' = listening
          /\ backlog' = backlog]_vars

\* With the 17th connection waiting, one of 16 served channels has ended:
\* 15 go on, one of them with requests in flight, and the slot is free.
C17_Witness ==
    /\ arrived = MAX_PARALLEL_REQUESTS + 1
    /\ warned = 0
    /\ Len(backlog) = 1
    /\ Head(backlog).ok
    /\ Serving = MAX_PARALLEL_REQUESTS - 1
    /\ \E n \in BagToSet(channels) : n >= 1
    /\ listening

\* C19: the limit counts channels.  Never more than MAX_PARALLEL_REQUESTS
\* connections are served at once, and while that many are served no
\* waiting connection is taken: the number served does not rise and the
\* waiting ones stay until a served channel has ended.
C19_ServedChannelsWithinLimit ==
    /\ [](Serving <= MAX_PARALLEL_REQUESTS)
    /\ [][Serving = MAX_PARALLEL_REQUESTS =>
            /\ Serving' <= Serving
            /\ Len(backlog') >= Len(backlog)
            /\ (Len(backlog') < Len(backlog) => Serving' < Serving)]_vars

\* 16 connections are served, some with more than one request in flight,
\* and the 17th waits.
C19_Witness ==
    /\ Serving = MAX_PARALLEL_REQUESTS
    /\ TotalInFlight > MAX_PARALLEL_REQUESTS
    /\ backlog # << >>
    /\ Head(backlog).ok
    /\ arrived = MAX_PARALLEL_REQUESTS + 1

\* The replies the clients hold.
Replies(method) ==
    {result[p] : p \in {q \in Procs : result[q] # None /\ result[q][1] = method}}

\* C18 as stated: every reply to protocol is "0", every reply to ping is
\* "pong!" and every call of time has returned a value, not failed.
C18_AlwaysSucceed ==
    /\ \A r \in Replies("protocol") : r[2] = "0"
    /\ \A r \in Replies("ping") : r[2] = "pong!"
    /\ \A r \in Replies("time") : IsOk(r[2])

\* C18 amended: protocol returns "0" and ping returns "pong!" in every
\* state; time returns the clock's seconds since the epoch when the clock
\* is not before the epoch and panics when it is; and none of the three
\* changes a login_attempts row, a session or a serial.
C18_InformationalCalls ==
    /\ [](/\ \A r \in Replies("protocol") : r[2] = "0"
          /\ \A r \in Replies("ping") : r[2] = "pong!")
    /\ [][/\ \A p \in Procs :
               (result'[p] # result[p] /\ result'[p][1] = "time") =>
                   /\ system_time >= 0 => result'[p][2] = Ok(system_time)
                   /\ system_time < 0 => result'[p][2][1] = "Panic"
          /\ result' # result =>
               UNCHANGED <<attempts, login_attempt_seq, sessions,
                           session_seq>>]_vars

\* Over tables that hold a login and its session, one client holds
\* "pong!" and the other's call of time has panicked.
C18_Witness ==
    /\ Len(attempts) >= 1
    /\ Len(sessions) >= 1
    /\ <<"ping", "pong!">> \in Replies("ping")
    /\ \E r \in Replies("time") : ~IsOk(r[2])

\* C20: set_login_success(id) returns Ok(()) for every id; it keeps the
\* number and order of the rows, every row with another id and every column
\* of the row with that id except success, which becomes true; for an id no
\* row has, the table is unchanged.  A step made of such a call changes at
\* most one row and no session, serial or pending call.
C20_MarkSuccessFrame ==
    /\ [](\A id \in 1..(MaxAttempts + 1) :
            LET done == set_login_success(attempts, id)
            IN  /\ done.result = "Ok"
                /\ Len(done.attempts) = Len(attempts)
                /\ \A i \in 1..Len(attempts) :
                      /\ done.attempts[i].id = attempts[i].id
                      /\ done.attempts[i].user_id = attempts[i].user_id
                      /\ done.attempts[i].username_or_email =
                             attempts[i].username_or_email
                      /\ done.attempts[i].remote_address =
                             attempts[i].remote_address
                      /\ done.attempts[i].attempted_at =
                             attempts[i].attempted_at
                      /\ done.attempts[i].success =
                             (attempts[i].success \/ attempts[i].id = id)
                /\ id \notin RowIds(attempts) => done.attempts = attempts)
    /\ [][(pc' = pc /\ clock' = clock) =>
            /\ UNCHANGED <<sessions, session_seq, login_attempt_seq,
                           call, result>>
            /\ Len(attempts') = Len(attempts)
            /\ Cardinality({i \in 1..Len(attempts) :
                               attempts'[i] # attempts[i]}) <= 1]_vars

\* Of two failed attempts the first has been marked successful, without a
\* session, and the second is as it was inserted.
C20_Witness ==
    /\ Len(attempts) = 2
    /\ sessions = << >>
    /\ attempts[1].success
    /\ ~attempts[2].success
    /\ \A p \in Procs : result[p] = AuthenticationFailed

\* The users that have a password.
WithPassword(ptable) == {ptable[j].user_id : j \in 1..Len(ptable)}

\* C21: create_user is all or nothing.  Every user in the users table has a
\* password; a call that returns Ok(id) has added exactly the user id and
\* its password; a call that returns an error has left both tables as they
\* were; and the tables change in no other way.
C21_CreateUserAtomic ==
    /\ [](\A i \in 1..Len(users) : users[i].id \in WithPassword(passwords))
    /\ [][\A p \in Procs :
            (result'[p] # result[p] /\ result'[p] # None) =>
                IF IsOk(result'[p])
                THEN /\ Len(users') = Len(users) + 1
                     /\ SubSeq(users', 1, Len(users)) = users
                     /\ users'[Len(users')].id = result'[p][2]
                     /\ Len(passwords') = Len(passwords) + 1
                     /\ SubSeq(passwords', 1, Len(passwords)) = passwords
                     /\ passwords'[Len(passwords')].user_id = result'[p][2]
                ELSE /\ result'[p] = StorageFailure
                     /\ users' = users
                     /\ passwords' = passwords]_vars
    /\ [][(users' # users \/ passwords' # passwords) =>
            \E p \in Procs :
                /\ result'[p] # None
                /\ IsOk(result'[p])
                /\ result'[p] # result[p]]_vars

\* One call has created a user with its password and another has failed
\* after its user row was written (the serial is one id further), leaving
\* one user and one password.
C21_Witness ==
    /\ Len(users) = 1
    /\ Len(passwords) = 1
    /\ user_seq = 3
    /\ \E p \in Procs : result[p] = Ok(users[1].id)
    /\ \E p \in Procs : result[p] = StorageFailure

====
